---- MODULE Spec2Model ----
(***************************************************************************)
(* A model of src/shapes.rs: the polyline6 decoder                         *)
(* decode_shape_polyline6, run one source step at a time, and the two      *)
(* coordinate conversions of ShapePoint.                                   *)
(*                                                                         *)
(* Coordinates are kept as the integer micro-degrees the decoder holds in  *)
(* ll[0] and ll[1]; a ShapePoint's f64 field is that integer times         *)
(* inv = 1.0 / 1e6 (line 45).  The product is strictly monotone in the     *)
(* integer and hits -90.0, 90.0, -180.0 and 180.0 exactly at -90000000,    *)
(* 90000000, -180000000 and 180000000, so every range test on the f64      *)
(* value is the same test on the integer.                                  *)
(*                                                                         *)
(* The build profile is part of the state: debug_assert!, the overflow     *)
(* checks on + and the range check on << exist in a debug build only.      *)
(***************************************************************************)
EXTENDS Integers, Sequences, FiniteSets

VARIABLES build, encoded, calls, pc, panic, i, j, shift, byte, ll, previous,
          decoded, converted

vars == << build, encoded, calls, pc, panic, i, j, shift, byte, ll, previous,
           decoded, converted >>

(***************************************************************************)
(* Bounds of the checked input space.                                      *)
(***************************************************************************)
\* most characters of an input drawn exhaustively over Alphabet
MaxLen == 3
\* most points of an input drawn exhaustively over PathBytes
MaxPoints == 2
\* most continuation bytes put in front of a field's last byte
MaxCont == 8
\* most calls of the decoder in one run
MaxCalls == 2

(***************************************************************************)
(* Signed 32-bit arithmetic.  Every operator stays inside the i32 range    *)
(* while it computes, as the machine does.                                 *)
(***************************************************************************)
I32Max == 2147483647
I32Min == -I32Max - 1

Pow2(n) == 2 ^ n

\* the 31 low bits of an i32, as a natural number
Low31(a) == IF a < 0 THEN a - I32Min ELSE a

FromBits(low, neg) == IF neg THEN low + I32Min ELSE low

\* x | y on natural numbers below 2^31
RECURSIVE OrNat(_, _)
OrNat(x, y) ==
  IF x = 0 THEN y
  ELSE IF y = 0 THEN x
  ELSE 2 * OrNat(x \div 2, y \div 2) + (IF x % 2 = 1 \/ y % 2 = 1 THEN 1 ELSE 0)

\* a | b on i32
Or32(a, b) == FromBits(OrNat(Low31(a), Low31(b)), a < 0 \/ b < 0)

\* x << s on i32 for 0 <= x < 2^31 and 0 <= s <= 31: the bits of x pushed past
\* bit 31 are dropped and the bit that lands on bit 31 is the sign
Shl32(x, s) ==
  IF s = 0 THEN x
  ELSE IF s = 31 THEN FromBits(0, x % 2 = 1)
  ELSE FromBits((x % Pow2(31 - s)) * Pow2(s), (x \div Pow2(31 - s)) % 2 = 1)

\* x & 0x1f on i32
And1f(x) == x % 32

\* !x on i32
Not32(x) == -(x + 1)

\* x >> 1 on i32 (arithmetic shift)
Shr1(x) == x \div 2

\* a + b leaves the i32 range
AddOverflows(a, b) ==
  \/ a > 0 /\ b > 0 /\ a > I32Max - b
  \/ a < 0 /\ b < 0 /\ a < I32Min - b

\* a + b on i32, wrapping
WrappingAdd(a, b) ==
  IF a > 0 /\ b > 0 /\ a > I32Max - b THEN (a + I32Min) + (b + I32Min)
  ELSE IF a < 0 /\ b < 0 /\ a < I32Min - b THEN (a - I32Min) + (b - I32Min)
  ELSE a + b

ZigZagOdd(raw) == IF raw % 2 # 0 THEN Shr1(raw) ELSE Not32(Shr1(raw))

\* lines 65-69: the signed delta of an accumulated raw value
ZigZag(raw) == IF raw % 2 # 0 THEN Not32(Shr1(raw)) ELSE Shr1(raw)

(***************************************************************************)
(* Program constants.                                                      *)
(***************************************************************************)
\* line 58: the printable-ASCII offset taken off every byte
Offset == 63
\* lines 55-57: the continuation threshold, also the start value of byte
ContinueFrom == 32
\* lines 60-61: data bits per byte
GroupBits == 5
\* lines 24, 32, 75 scaled by 1e6 (line 45): the latitude limit
LatLimit == 90000000
\* lines 25, 33, 76 scaled by 1e6 (line 45): the longitude limit
LonLimit == 180000000

Builds == {"debug", "release"}

(***************************************************************************)
(* Inputs.  A &str is the byte sequence of its UTF-8 form: a character     *)
(* that is not ASCII is two or more bytes of 128 or more each.             *)
(***************************************************************************)
\* characters: one below the offset; data 0, 1, 2 without continuation;
\* data 31 with continuation; DEL (ASCII, 64 after the offset); and
\* U+0200, which is not ASCII
Alphabet == {<< 62 >>, << 63 >>, << 64 >>, << 65 >>, << 126 >>, << 127 >>,
             << 200, 128 >>}

SeqsUpTo(S, n) == UNION {[1..k -> S] : k \in 0..n}

RECURSIVE Flatten(_)
Flatten(ss) == IF ss = << >> THEN << >> ELSE Head(ss) \o Flatten(Tail(ss))

ShortInputs == { Flatten(cs) : cs \in SeqsUpTo(Alphabet, MaxLen) }

\* one-byte fields: deltas 0, -1, +1
PathBytes == {63, 64, 65}

PathInputs == UNION {[1..(2 * k) -> PathBytes] : k \in 1..MaxPoints}

Rep(c, n) == [k \in 1..n |-> c]

RECURSIVE Times(_, _)
Times(s, r) == IF r = 0 THEN << >> ELSE s \o Times(s, r - 1)

\* continuation bytes with data 0 and data 31
ContBytes == {95, 126}
\* last bytes with data 0, 1, 2, 3, 4 and 31
LastBytes == {63, 64, 65, 66, 67, 94}

\* a latitude (or longitude) field of n + 1 bytes beside a one-byte field,
\* the point repeated up to three times
LongFieldInputs ==
  UNION {
    { Times(Rep(c, n) \o << t, 63 >>, r) : r \in 1..3 }
      \cup { << 63 >> \o Rep(c, n) \o << t >> }
    : n \in 1..MaxCont, c \in ContBytes, t \in LastBytes }

\* the encoder of the format (none is in the source): it builds the inputs
\* that decode to chosen coordinates
RECURSIVE EncodeRaw(_)
EncodeRaw(raw) ==
  IF raw >= 32 THEN << (raw % 32) + 32 + Offset >> \o EncodeRaw(raw \div 32)
  ELSE << raw + Offset >>

EncodeValue(v) == EncodeRaw(IF v < 0 THEN (-2 * v) - 1 ELSE 2 * v)

LatEdges == {-LatLimit - 1, -LatLimit, 1 - LatLimit, 0, LatLimit - 1, LatLimit}
LonEdges == {-LonLimit - 1, -LonLimit, 1 - LonLimit, 0, LonLimit - 1, LonLimit}

BoundaryInputs ==
  { EncodeValue(lat) \o EncodeValue(lon) : lat \in LatEdges, lon \in LonEdges }

FixtureA ==
  << 125, 99, 124, 103, 107, 65, 108, 118, 107, 109, 113, 67, 107, 103, 64, 122, 102, 64, 95,
     73, 98, 74, 97, 80, 96, 88, 111, 88, 113, 94, 97, 67, 119, 68, 121, 66, 121, 71, 107,
     65, 121, 71, 73, 125, 72, 63, 105, 70, 90, 101, 72, 96, 65, 117, 70, 102, 66, 125, 72,
     120, 66, 97, 71, 126, 120, 65, 105, 97, 66, 116, 70, 103, 72, 116, 80, 113, 87, 102, 67,
     101, 68, 112, 77, 115, 78, 118, 97, 64, 112, 120, 64, 114, 82, 112, 95, 64, 124, 115,
     64, 118, 118, 65, 100, 123, 64, 116, 98, 66, 112, 105, 65, 102, 122, 66, 106, 78, 117,
     119, 64, 108, 71, 111, 96, 64, 98, 65, 119, 72, 122, 64, 125, 73, 124, 64, 99, 81, 94,
     103, 78, 102, 64, 95, 79, 66, 95, 78, 74, 125, 91, 66, 101, 74, 72, 123, 99, 64, 88,
     123, 91, 83, 97, 75, 95, 64, 123, 83, 93, 125, 81, 95, 64, 99, 74, 85, 103, 76, 65, 103,
     74, 63, 105, 85, 66, 111, 66, 94, 101, 77, 70, 111, 65, 96, 66, 115, 88, 98, 76, 103,
     120, 65, 122, 75, 95, 123, 67, 112, 68, 125, 111, 65, 96, 64, 119, 85, 108, 66, 101,
     103, 65, 118, 65, 109, 104, 64, 102, 71, 99, 114, 64, 108, 71, 117, 114, 64, 122, 71,
     117, 93, 106, 71, 101, 83, 118, 64, 95, 66, 100, 78, 105, 89, 100, 67, 97, 68, 104, 72,
     97, 74, 120, 94, 95, 91, 102, 94, 125, 81, 114, 101, 64, 99, 88, 106, 79, 103, 74, 116,
     74, 125, 72, 106, 73, 113, 75, 106, 69, 107, 72, 122, 68, 123, 72, 112, 68, 97, 73, 114,
     66, 95, 71, 118, 65, 125, 69, 112, 65, 111, 70, 102, 65, 97, 71, 108, 65, 125, 72, 124,
     64, 121, 72, 98, 65, 119, 75, 126, 76, 101, 123, 65, 124, 64, 121, 72, 118, 64, 123, 70,
     116, 64, 99, 69, 102, 66, 105, 72, 100, 67, 115, 72, 106, 67, 107, 70, 124, 66, 121, 68,
     120, 81, 97, 89, 108, 69, 125, 71, 114, 67, 109, 69, 106, 82, 123, 89, 112, 94, 97, 108,
     64, 110, 77, 103, 77, 124, 67, 95, 70, 98, 93, 95, 106, 64, 120, 76, 119, 82, 126, 82,
     111, 91, 96, 68, 105, 69, 108, 68, 115, 68, 126, 71, 109, 71, 108, 78, 109, 77, 112, 69,
     119, 68, 107, 65, 119, 71, 99, 68, 119, 82, 95, 69, 107, 85, 109, 68, 117, 86, 123, 67,
     109, 84, 105, 80, 119, 97, 65, 115, 99, 64, 123, 107, 67, 119, 76, 95, 116, 64, 123,
     100, 64, 119, 109, 67, 113, 90, 107, 105, 66, 123, 78, 107, 99, 65, 99, 71, 119, 97, 64,
     97, 65, 103, 72, 121, 74, 95, 116, 64, 117, 73, 95, 113, 64, 95, 75, 121, 112, 64, 97,
     69, 103, 89, 113, 66, 113, 76, 125, 77, 95, 118, 64, 95, 81, 123, 110, 64, 115, 86, 119,
     125, 64, 103, 86, 123, 114, 64, 107, 76, 115, 92, 115, 67, 101, 73, 113, 88, 109, 119,
     64, 101, 70, 107, 93, 87, 123, 93, 100, 67, 105, 99, 64, 68, 119, 64, 118, 73, 115, 98,
     64, 112, 64, 103, 68, 126, 79, 105, 119, 64, 104, 65, 107, 71, 116, 66, 97, 76, 100, 64,
     103, 70, 106, 65, 119, 99, 64, 71, 105, 71, 79, 101, 75, 115, 64, 99, 101, 64, 105, 64,
     95, 72, 101, 69, 99, 105, 64, 95, 64, 101, 70, 121, 68, 115, 104, 64, 103, 69, 115, 114,
     64, 97, 64, 101, 90, 113, 65, 117, 97, 65, 111, 64, 99, 110, 65, 98, 64, 125, 74, 104,
     65, 119, 112, 65, 110, 67, 113, 124, 67, 112, 67, 111, 99, 66, 72, 99, 68, 90, 105, 78,
     114, 65, 99, 112, 64, 96, 66, 105, 122, 64, 120, 64, 125, 109, 64, 98, 65, 103, 108, 64,
     120, 64, 99, 87, 114, 72, 121, 99, 65, 98, 71, 121, 105, 64, 116, 78, 101, 126, 64, 114,
     65, 115, 73, 106, 68, 113, 84, 108, 68, 119, 83, 124, 71, 95, 103, 64, 118, 71, 121,
     100, 64, 102, 71, 101, 115, 64, 126, 68, 121, 110, 65, 90, 125, 110, 65, 88, 99, 126,
     66, 111, 71, 101, 66, 125, 72, 115, 73, 97, 76, 125, 67, 113, 77, 101, 68, 109, 68, 98,
     66, 119, 66, 101, 64, 105, 70, 125, 64, 119, 77, 107, 67, 107, 83, 117, 70, 115, 65, 95,
     64 >>

FixtureB ==
  << 99, 122, 97, 97, 123, 65, 121, 116, 104, 103, 85, 125, 75, 95, 67, 103, 70, 101, 65,
     105, 66, 93, 109, 68, 113, 64, 117, 82, 111, 68, 95, 67, 97, 64, 124, 64, 97, 79, 98,
     64, 117, 72, 100, 64, 101, 73, 98, 64, 103, 72, 104, 64, 119, 73, 96, 64, 99, 72, 78,
     109, 67, 104, 66, 97, 91, 124, 67, 105, 104, 64, 102, 65, 95, 82, 122, 66, 94, 102, 109,
     64, 102, 75, 126, 65, 86, 98, 76, 108, 66, 112, 72, 110, 65, 118, 77, 102, 67, 118, 68,
     116, 64, 104, 77, 122, 66, 114, 79, 106, 67, 116, 71, 102, 65, 114, 69, 122, 64, 100,
     74, 118, 65, 100, 67, 94, 98, 67, 7, 64, 106, 72, 126, 66, 94, 98, 66, 88, 106, 65, 82,
     118, 90, 110, 70, 122, 86, 124, 69, 112, 78, 106, 67, 114, 82, 110, 68, 112, 83, 126,
     68, 96, 68, 100, 64, 98, 75, 96, 66, 106, 69, 112, 64, 108, 67, 100, 64, 106, 76, 120,
     66, 108, 73, 126, 65, 126, 70, 124, 81, 84, 96, 65, 103, 64, 126, 71, 97, 64, 112, 69,
     89, 114, 67, 97, 64, 102, 69, 120, 65, 96, 64, 126, 73, 102, 67, 122, 73, 106, 67, 106,
     123, 64, 124, 85, 112, 125, 64, 104, 87, 108, 84, 112, 72, 112, 65, 98, 66, 94, 96, 67,
     125, 67, 122, 104, 64, 125, 70, 103, 66, 109, 67, 121, 64, 115, 79, 113, 69, 119, 69,
     106, 98, 64, 111, 64, 114, 70, 111, 65, 100, 76, 101, 65, 97, 64, 121, 73, 97, 68, 99,
     70, 105, 66, 89, 100, 67 >>

\* fixture A without its last byte
TruncatedFixtureA == SubSeq(FixtureA, 1, Len(FixtureA) - 1)

FixtureInputs == {FixtureA, FixtureB, TruncatedFixtureA}

Inputs == ShortInputs \cup PathInputs \cup LongFieldInputs \cup BoundaryInputs

\* the strings a later call decodes
CallInputs == SeqsUpTo(PathBytes, 2) \cup {<< 126 >>, << 200, 128 >>}

(***************************************************************************)
(* The decoder, lines 41-81.  pc is the place in the function:             *)
(*   "entry"  before line 42    "loop"   at the while of line 50           *)
(*   "read"   at the while of line 57      "point"  before line 73         *)
(*   "done"   returned (line 80)           "panic"  unwound; panic says why*)
(* Between two calls the locals keep what the last call left in them, so   *)
(* that what a call sets at its start is visible; calls counts the calls.  *)
(***************************************************************************)
Pair(a, b) == [k \in {0, 1} |-> IF k = 0 THEN a ELSE b]

ShapePoint(lon, lat) == [lon |-> lon, lat |-> lat]

\* str::is_ascii, line 42
IsAscii(s) == \A k \in 1..Len(s) : s[k] < 128

\* a variant of LatInRange that leaves out -90
LatInRangeOpen(lat) == -LatLimit < lat /\ lat < LatLimit

\* (-90.0..90.0).contains(&lat), lines 24, 32, 75: a half-open Range
LatInRange(lat) == -LatLimit <= lat /\ lat < LatLimit

\* (-180.0..180.0).contains(&lon), lines 25, 33, 76: a half-open Range
LonInRange(lon) == -LonLimit <= lon /\ lon < LonLimit

NoConversion == [op |-> "none", outcome |-> "none", p |-> ShapePoint(0, 0)]

InitWith(S) ==
  /\ build \in Builds
  /\ encoded \in S
  /\ calls = 1
  /\ pc = "entry"
  /\ panic = "none"
  /\ i = 0
  /\ j = 0
  /\ shift = 0
  /\ byte = 0
  /\ ll = Pair(0, 0)
  /\ previous = Pair(0, 0)
  /\ decoded = << >>
  /\ converted = NoConversion

Init == InitWith(Inputs)

\* a variant of Enter that keeps the running values of the last call
EnterKeepingPrevious ==
  /\ pc = "entry"
  /\ IF build = "debug" /\ ~IsAscii(encoded)
       THEN /\ pc' = "panic"
            /\ panic' = "assert_ascii"
            /\ UNCHANGED << i, previous, decoded >>
     ELSE IF build = "debug" /\ encoded = << >>
       THEN /\ pc' = "panic"
            /\ panic' = "assert_nonempty"
            /\ UNCHANGED << i, previous, decoded >>
     ELSE /\ pc' = "loop"
          /\ decoded' = << >>
          /\ i' = 0
          /\ UNCHANGED << panic, previous >>
  /\ UNCHANGED << build, encoded, calls, j, shift, byte, ll, converted >>

\* lines 42-48: the two assertions, then the locals
Enter ==
  /\ pc = "entry"
  /\ IF build = "debug" /\ ~IsAscii(encoded)
       THEN /\ pc' = "panic"
            /\ panic' = "assert_ascii"
            /\ UNCHANGED << i, previous, decoded >>
     ELSE IF build = "debug" /\ encoded = << >>
       THEN /\ pc' = "panic"
            /\ panic' = "assert_nonempty"
            /\ UNCHANGED << i, previous, decoded >>
     ELSE /\ pc' = "loop"
          /\ decoded' = << >>
          /\ previous' = Pair(0, 0)
          /\ i' = 0
          /\ UNCHANGED panic
  /\ UNCHANGED << build, encoded, calls, j, shift, byte, ll, converted >>

\* a variant of the loop test that also runs the body at the end of input
LoopAgain == i <= Len(encoded)

\* line 50: the test of the outer while
MoreInput == i < Len(encoded)

\* lines 50-56 and 80: the outer loop's test; the start of a point and of
\* its latitude field, or the return
OuterLoop ==
  /\ pc = "loop"
  /\ IF MoreInput
       THEN /\ ll' = Pair(0, 0)
            /\ j' = 0
            /\ shift' = 0
            /\ byte' = ContinueFrom
            /\ pc' = "read"
     ELSE /\ pc' = "done"
          /\ UNCHANGED << ll, j, shift, byte >>
  /\ UNCHANGED << build, encoded, calls, panic, i, previous, decoded, converted >>

\* a variant of NextShift that moves on by 6 bits
NextShiftBySix(s) == s + GroupBits + 1

\* line 61
NextShift(s) == s + GroupBits

\* line 60, the right-hand side: the data bits of the byte, moved in place
\* (a release build masks the shift amount to five bits)
Group(b, s) == Shl32(And1f(b), s % 32)

\* lines 57-62: one turn of the inner while.  The index of line 58 is
\* checked in every build; the shift amount of line 60 in a debug build.
ReadByte ==
  /\ pc = "read"
  /\ byte >= ContinueFrom
  /\ IF i >= Len(encoded)
       THEN /\ pc' = "panic"
            /\ panic' = "index_out_of_bounds"
            /\ UNCHANGED << i, shift, byte, ll >>
     ELSE /\ byte' = encoded[i + 1] - Offset
          /\ i' = i + 1
          /\ IF build = "debug" /\ shift >= 32
               THEN /\ pc' = "panic"
                    /\ panic' = "shift_overflow"
                    /\ UNCHANGED << shift, ll >>
             ELSE /\ ll' = [ll EXCEPT ![j] = Or32(ll[j], Group(byte', shift))]
                  /\ shift' = NextShift(shift)
                  /\ UNCHANGED << pc, panic >>
  /\ UNCHANGED << build, encoded, calls, j, previous, decoded, converted >>

\* lines 64-70 and the step of the for of line 53: the delta is added to
\* the running value; + is checked in a debug build and wraps in a release
\* build
FinishField ==
  /\ pc = "read"
  /\ byte < ContinueFrom
  /\ LET delta == ZigZag(ll[j])
     IN IF build = "debug" /\ AddOverflows(previous[j], delta)
          THEN /\ pc' = "panic"
               /\ panic' = "add_overflow"
               /\ UNCHANGED << ll, previous, j, shift, byte >>
        ELSE /\ ll' = [ll EXCEPT ![j] = WrappingAdd(previous[j], delta)]
             /\ previous' = [previous EXCEPT ![j] = ll'[j]]
             /\ UNCHANGED panic
             /\ IF j = 0
                  THEN /\ j' = 1
                       /\ shift' = 0
                       /\ byte' = ContinueFrom
                       /\ pc' = "read"
                ELSE /\ pc' = "point"
                     /\ UNCHANGED << j, shift, byte >>
  /\ UNCHANGED << build, encoded, calls, i, decoded, converted >>

\* a variant of EmitPoint that drops a point equal to the last one
EmitPointDeduplicating ==
  /\ pc = "point"
  /\ IF build = "debug" /\ ~LatInRange(ll[0])
       THEN /\ pc' = "panic"
            /\ panic' = "assert_lat"
            /\ UNCHANGED decoded
     ELSE IF build = "debug" /\ ~LonInRange(ll[1])
       THEN /\ pc' = "panic"
            /\ panic' = "assert_lon"
            /\ UNCHANGED decoded
     ELSE /\ decoded' = IF /\ decoded # << >>
                           /\ decoded[Len(decoded)] = ShapePoint(ll[1], ll[0])
                          THEN decoded
                        ELSE Append(decoded, ShapePoint(ll[1], ll[0]))
          /\ pc' = "loop"
          /\ UNCHANGED panic
  /\ UNCHANGED << build, encoded, calls, i, j, shift, byte, ll, previous, converted >>

\* lines 73-77: the two range assertions, then the push
EmitPoint ==
  /\ pc = "point"
  /\ IF build = "debug" /\ ~LatInRange(ll[0])
       THEN /\ pc' = "panic"
            /\ panic' = "assert_lat"
            /\ UNCHANGED decoded
     ELSE IF build = "debug" /\ ~LonInRange(ll[1])
       THEN /\ pc' = "panic"
            /\ panic' = "assert_lon"
            /\ UNCHANGED decoded
     ELSE /\ decoded' = Append(decoded, ShapePoint(ll[1], ll[0]))
          /\ pc' = "loop"
          /\ UNCHANGED panic
  /\ UNCHANGED << build, encoded, calls, i, j, shift, byte, ll, previous, converted >>

\* the next call of the function, by deserialize_shape (lines 82-88) or a
\* test, with another string
Call ==
  /\ pc \in {"done", "panic"}
  /\ calls < MaxCalls
  /\ calls' = calls + 1
  /\ encoded' \in CallInputs
  /\ pc' = "entry"
  /\ panic' = "none"
  /\ UNCHANGED << build, i, j, shift, byte, ll, previous, decoded, converted >>

(***************************************************************************)
(* The conversions, lines 22-36.  Only whether a point is let through is   *)
(* modelled, not the value made of it.  A ShapePoint is public and         *)
(* Deserialize, so a conversion can be handed any point.                   *)
(***************************************************************************)
EdgePoints == { ShapePoint(lon, lat) : lon \in LonEdges, lat \in LatEdges }

Points == EdgePoints \cup { decoded[k] : k \in 1..Len(decoded) }

Checked(p) ==
  IF build = "debug" /\ ~LatInRange(p.lat) THEN "assert_lat"
  ELSE IF build = "debug" /\ ~LonInRange(p.lon) THEN "assert_lon"
  ELSE "ok"

\* lines 22-28
ToGeoPoint ==
  /\ pc \in {"done", "panic"}
  /\ \E p \in Points :
       converted' = [op |-> "geo_point", outcome |-> Checked(p), p |-> p]
  /\ UNCHANGED << build, encoded, calls, pc, panic, i, j, shift, byte, ll, previous,
                  decoded >>

\* lines 30-36
ToCoordinate ==
  /\ pc \in {"done", "panic"}
  /\ \E p \in Points :
       converted' = [op |-> "coordinate", outcome |-> Checked(p), p |-> p]
  /\ UNCHANGED << build, encoded, calls, pc, panic, i, j, shift, byte, ll, previous,
                  decoded >>

Next ==
  \/ Enter
  \/ OuterLoop
  \/ ReadByte
  \/ FinishField
  \/ EmitPoint
  \/ Call

Spec == Init /\ [][Next]_vars

\* the decoder on the strings of the two tests, lines 95 and 287, and on
\* the first of them cut short
InitFixture == InitWith(FixtureInputs)

NextFixture ==
  \/ Enter
  \/ OuterLoop
  \/ ReadByte
  \/ FinishField
  \/ EmitPoint

SpecFixture == InitFixture /\ [][NextFixture]_vars

\* the decoder on the inputs around the coordinate limits, and the
\* conversions
InitConv == InitWith(BoundaryInputs \cup PathInputs)

NextConv ==
  \/ Enter
  \/ OuterLoop
  \/ ReadByte
  \/ FinishField
  \/ EmitPoint
  \/ ToGeoPoint
  \/ ToCoordinate

SpecConv == InitConv /\ [][NextConv]_vars

(***************************************************************************)
(* What the claims speak of, computed from the input alone and not from    *)
(* the run of the decoder.                                                 *)
(***************************************************************************)
\* the call of the current input has got past line 48: decoded and the
\* running values are this call's
InCall ==
  \/ pc \in {"loop", "read", "point", "done"}
  \/ pc = "panic" /\ panic \notin {"assert_ascii", "assert_nonempty"}

\* a byte that ends a field: b - 63 < 0x20
EndsField(b) == b - 63 < 32

\* the positions of the bytes that end a field
FieldEnds(s) == {k \in 1..Len(s) : EndsField(s[k])}

\* the bytes split into an even number of fields, the last one ended
WellFormed(s) ==
  /\ s # << >> => EndsField(s[Len(s)])
  /\ Cardinality(FieldEnds(s)) % 2 = 0

\* the positions in lo..hi of the bytes that end a field, in rising order
RECURSIVE EndsBetween(_, _, _)
EndsBetween(s, lo, hi) ==
  IF lo > hi THEN << >>
  ELSE IF lo = hi THEN (IF EndsField(s[lo]) THEN << lo >> ELSE << >>)
  ELSE LET mid == (lo + hi) \div 2
       IN EndsBetween(s, lo, mid) \o EndsBetween(s, mid + 1, hi)

\* the ended fields of s, in input order
Fields(s) ==
  LET e == EndsBetween(s, 1, Len(s))
  IN [k \in 1..Len(e) |-> SubSeq(s, IF k = 1 THEN 1 ELSE e[k - 1] + 1, e[k])]

\* the raw value the machine accumulates over the bytes of one field
RECURSIVE Accumulated(_, _)
Accumulated(f, n) ==
  IF n = 0 THEN 0
  ELSE Or32(Accumulated(f, n - 1), Shl32((f[n] - 63) % 32, (5 * (n - 1)) % 32))

\* the signed delta of one field, as a 32-bit machine decodes it
FieldDelta(f) ==
  LET raw == Accumulated(f, Len(f))
  IN IF raw % 2 = 1 THEN -((raw \div 2) + 1) ELSE raw \div 2

\* the point built from fields 2k-1 (latitude) and 2k (longitude) on top
\* of the point before it
PointAfter(before, latField, lonField) ==
  [lon |-> WrappingAdd(before.lon, FieldDelta(lonField)),
   lat |-> WrappingAdd(before.lat, FieldDelta(latField))]

\* an integer kept in two parts, hi * 65536 + lo with 0 <= lo < 65536, so
\* that sums leave the 32-bit range without being cut
Wide(v) == [hi |-> v \div 65536, lo |-> v % 65536]

WideAdd(x, y) ==
  [hi |-> x.hi + y.hi + ((x.lo + y.lo) \div 65536),
   lo |-> (x.lo + y.lo) % 65536]

\* the exact sum of the deltas of fields first, first + 2, ..., last of fs
RECURSIVE ExactSum(_, _, _)
ExactSum(fs, first, last) ==
  IF first > last THEN Wide(0)
  ELSE IF first = last THEN Wide(FieldDelta(fs[first]))
  ELSE LET mid == first + 2 * ((last - first) \div 4)
       IN WideAdd(ExactSum(fs, first, mid), ExactSum(fs, mid + 2, last))

\* the same sum in wrapping 32-bit arithmetic
RECURSIVE WrappedSum(_, _, _)
WrappedSum(fs, first, last) ==
  IF first > last THEN 0
  ELSE IF first = last THEN FieldDelta(fs[first])
  ELSE LET mid == first + 2 * ((last - first) \div 4)
       IN WrappingAdd(WrappedSum(fs, first, mid), WrappedSum(fs, mid + 2, last))

Origin == [lon |-> 0, lat |-> 0]

(***************************************************************************)
(* C1                                                                      *)
(***************************************************************************)
\* C1, as stated: for every well-formed input the call returns, and what it
\* returns is exactly n points for the 2n fields, the k-th built from fields
\* 2k-1 and 2k on top of the (k-1)-th.
C1_ReturnsPointPerFieldPair ==
  WellFormed(encoded) =>
    /\ pc # "panic"
    /\ pc = "done" =>
         LET fs == Fields(encoded)
         IN /\ 2 * Len(decoded) = Len(fs)
            /\ \A k \in 1..Len(decoded) :
                 decoded[k] = PointAfter(IF k = 1 THEN Origin ELSE decoded[k - 1],
                                         fs[2 * k - 1], fs[2 * k])

\* C1, amended: for every well-formed input a release build returns; a
\* debug build returns or stops at one of its assertions or overflow
\* checks, never at the index; and at every moment of the call the points
\* pushed so far are those of the first field pairs, in input order, each
\* built on its predecessor, n of them when the call has returned.
C1_PointPerFieldPairWhenReturned ==
  (WellFormed(encoded) /\ InCall) =>
    LET fs == Fields(encoded)
    IN /\ build = "release" => pc # "panic"
       /\ panic # "index_out_of_bounds"
       /\ 2 * Len(decoded) <= Len(fs)
       /\ pc = "done" => 2 * Len(decoded) = Len(fs)
       /\ \A k \in 1..Len(decoded) :
            decoded[k] = PointAfter(IF k = 1 THEN Origin ELSE decoded[k - 1],
                                    fs[2 * k - 1], fs[2 * k])

\* C1 witness: a returned call whose input has two zero deltas after its
\* first point, so that two equal points follow each other
C1_Witness ==
  /\ pc = "done"
  /\ WellFormed(encoded)
  /\ Len(decoded) >= 2
  /\ decoded[2] = decoded[1]

(***************************************************************************)
(* C2                                                                      *)
(***************************************************************************)
\* C2, as stated: in every call the k-th point pushed is the exact sum of
\* the first k latitude deltas and of the first k longitude deltas of this
\* call's input, whatever the calls before it decoded.
C2_PointsAreExactSums ==
  InCall =>
    LET fs == Fields(encoded)
    IN \A k \in 1..Len(decoded) :
         /\ Wide(decoded[k].lat) = ExactSum(fs, 1, 2 * k - 1)
         /\ Wide(decoded[k].lon) = ExactSum(fs, 2, 2 * k)

\* C2, amended: the sums are taken in wrapping 32-bit arithmetic (a release
\* build wraps; a debug build stops at the overflowing addition, so that
\* every point it pushes is the exact sum).  The running values at the top
\* of the loop are the sums over the points pushed in this call.
C2_PointsAreSumsFromZero ==
  InCall =>
    LET fs == Fields(encoded)
        n == Len(decoded)
    IN /\ \A k \in 1..n :
            /\ decoded[k].lat = WrappedSum(fs, 1, 2 * k - 1)
            /\ decoded[k].lon = WrappedSum(fs, 2, 2 * k)
            /\ build = "debug" =>
                 /\ Wide(decoded[k].lat) = ExactSum(fs, 1, 2 * k - 1)
                 /\ Wide(decoded[k].lon) = ExactSum(fs, 2, 2 * k)
       /\ pc \in {"loop", "done"} =>
            /\ previous[0] = WrappedSum(fs, 1, 2 * n - 1)
            /\ previous[1] = WrappedSum(fs, 2, 2 * n)

\* C2 witness: the second call of a run has returned, and its first point
\* is the pair of its own first two deltas
C2_Witness ==
  /\ calls = 2
  /\ pc = "done"
  /\ Len(decoded) = 1
  /\ decoded[1] = [lon |-> 1, lat |-> -1]

(***************************************************************************)
(* C3                                                                      *)
(***************************************************************************)
\* bit 0x20 of b - 63, in two's complement
ContinuationBit(b) == ((b - 63) \div 32) % 2 = 1

\* the decoder has read at least one byte of a field and not yet added the
\* field to the running value
InField == pc = "read" /\ shift > 0

\* the decoder has left the inner while: the field is read
AtFieldEnd == InField /\ byte < 32

\* the position of the first byte of the field the decoder is reading: the
\* one after the last byte before encoded[i] that ended a field
FieldStart ==
  IF shift = 0 THEN i + 1
  ELSE LET before == {k \in 1..(i - 1) : EndsField(encoded[k])}
       IN IF before = {} THEN 1
          ELSE 1 + CHOOSE k \in before : \A m \in before : m <= k

\* the bytes of that field read so far
FieldRead == SubSeq(encoded, FieldStart, i)

\* the end of the field that starts at p when fields are cut where the
\* continuation bit is clear; 0 when no such byte follows
BitFieldEnd(s, p) ==
  LET clear == {k \in p..Len(s) : ~ContinuationBit(s[k])}
  IN IF clear = {} THEN 0 ELSE CHOOSE k \in clear : \A m \in clear : k <= m

Digit(b) == (b - 63) % 32

\* the raw value of a field is RawHigh * 2^30 + RawLow, the sum over its
\* bytes of Digit * 32^position, kept in two parts so that it is exact
RECURSIVE RawLow(_, _)
RawLow(f, n) ==
  IF n = 0 THEN 0
  ELSE (IF n <= 6 THEN Digit(f[n]) * (32 ^ (n - 1)) ELSE 0) + RawLow(f, n - 1)

RECURSIVE RawHigh(_, _)
RawHigh(f, n) ==
  IF n <= 6 THEN 0
  ELSE Digit(f[n]) * (32 ^ (n - 7)) + RawHigh(f, n - 1)

\* v is the raw value of f
ExactRawIs(f, v) ==
  /\ RawHigh(f, Len(f)) <= 1
  /\ v = RawHigh(f, Len(f)) * (2 ^ 30) + RawLow(f, Len(f))

\* v is the zigzag decoding of the raw value of f: raw >> 1 when raw is
\* even, -(raw >> 1) - 1 when it is odd.  A raw value of 2^32 or more has a
\* decoding outside the 32-bit range, which no v equals.
ExactDeltaIs(f, v) ==
  LET hi == RawHigh(f, Len(f))
      lo == RawLow(f, Len(f))
  IN /\ hi <= 3
     /\ v = IF lo % 2 = 0 THEN hi * (2 ^ 29) + (lo \div 2)
            ELSE -(hi * (2 ^ 29) + (lo \div 2)) - 1

\* every byte of f is one the encoding uses
AllEncodingBytes(f) == \A k \in 1..Len(f) : 63 <= f[k] /\ f[k] <= 126

\* C3, as stated: when the decoder has read a field, it has read exactly
\* the bytes up to the first one whose continuation bit is clear, and the
\* delta it makes of them is the zigzag decoding of their raw value.
C3_FieldIsZigZagOfRaw ==
  AtFieldEnd =>
    LET e == BitFieldEnd(encoded, FieldStart)
    IN e # 0 =>
         /\ i = e
         /\ ExactDeltaIs(SubSeq(encoded, FieldStart, e), ZigZag(ll[j]))

\* C3, amended: the same for a field of at most 6 bytes, each of them in
\* 63..126; and the decoder does read such a field to its end: it stops
\* neither at the index nor at the shift while inside one.
C3_ShortFieldIsZigZagOfRaw ==
  LET e == BitFieldEnd(encoded, FieldStart)
      f == SubSeq(encoded, FieldStart, e)
      short == e # 0 /\ Len(f) <= 6 /\ AllEncodingBytes(f)
  IN /\ (AtFieldEnd /\ short) =>
          /\ i = e
          /\ ExactDeltaIs(f, ZigZag(ll[j]))
     /\ (pc = "panic" /\ panic \in {"index_out_of_bounds", "shift_overflow"})
          => ~short

\* C3 witness: a field of 6 bytes with every data bit set has been read
C3_Witness ==
  /\ AtFieldEnd
  /\ FieldRead = << 126, 126, 126, 126, 126, 94 >>
  /\ ZigZag(ll[j]) = -(2 ^ 29)

(***************************************************************************)
(* C7                                                                      *)
(***************************************************************************)
\* a byte below 63, or of 128 or more
InvalidByte(b) == b < 63 \/ b >= 128

\* C7: an input that holds an invalid byte is never decoded into a
\* returned point sequence.
C7_InvalidByteNeverDecoded ==
  (\E k \in 1..Len(encoded) : InvalidByte(encoded[k])) => pc # "done"

(***************************************************************************)
(* C8                                                                      *)
(***************************************************************************)
\* C8: on the empty string the call stops at the assertion of line 43
\* (debug build) or returns the empty sequence (release build); it never
\* enters the inner loop, where bytes are read, and never pushes a point.
C8_EmptyRejectedOrEmpty ==
  encoded = << >> =>
    /\ pc \in {"entry", "loop", "done", "panic"}
    /\ pc = "panic" => (panic = "assert_nonempty" /\ build = "debug")
    /\ pc \in {"loop", "done"} => (build = "release" /\ i = 0 /\ decoded = << >>)

\* C8 witness: the call on the empty string has returned
C8_Witness == encoded = << >> /\ pc = "done" /\ decoded = << >>

(***************************************************************************)
(* C10                                                                     *)
(***************************************************************************)
\* while a field of at most 6 bytes is read, the shift applied last is at
\* most 25 and the accumulator is in 0..2^30-1
C10_Accumulator ==
  (InField /\ Len(FieldRead) <= 6) =>
    /\ shift - 5 <= 25
    /\ 0 <= ll[j] /\ ll[j] <= (2 ^ 30) - 1

\* the accumulator differs from the raw value of the bytes read (data bits
\* were dropped, or one landed on the sign bit), or the shift reached 32,
\* only in a field of 7 or more bytes
C10_LossNeedsSevenBytes ==
  /\ (InField /\ ~ExactRawIs(FieldRead, ll[j])) => Len(FieldRead) >= 7
  /\ (InField /\ shift - 5 >= 32) => Len(FieldRead) >= 7
  /\ (pc = "panic" /\ panic = "shift_overflow") => Len(FieldRead) >= 7

\* adding a field of at most 6 bytes to a running value in
\* -180000000..180000000: the addition is not stopped and its 32-bit
\* result is the sum in the integers
C10_Addition ==
  (/\ AtFieldEnd
   /\ Len(FieldRead) <= 6
   /\ -180000000 <= previous[j] /\ previous[j] <= 180000000)
    => /\ pc' # "panic"
       /\ \E d \in {ll'[j] - previous[j]} : ExactDeltaIs(FieldRead, d)
       /\ previous'[j] = ll'[j]

\* C10: under the stated limits every intermediate value stays in the
\* signed 32-bit range, and a field of 7 bytes is the shortest that can
\* lose data bits or reach a shift of 32.
C10_NoOverflowUpToSixBytes ==
  /\ [](C10_Accumulator /\ C10_LossNeedsSevenBytes)
  /\ [][C10_Addition]_vars

\* C10 witness: the largest accumulator of a 6-byte field, about to be
\* added to a running value inside the limits
C10_Witness ==
  /\ AtFieldEnd
  /\ Len(FieldRead) = 6
  /\ ll[j] = (2 ^ 30) - 1
  /\ previous[j] = 0

(***************************************************************************)
(* C4, C5, C6: the strings of the tests                                    *)
(***************************************************************************)
\* C4: decoding fixture A returns, and returns 180 points, the first
\* (-76.781943, 39.991887) and the last (-76.707664, 39.983914).
C4_FixtureAmerica ==
  encoded = FixtureA =>
    /\ pc # "panic"
    /\ pc = "done" =>
         /\ Len(decoded) = 180
         /\ decoded[1] = [lon |-> -76781943, lat |-> 39991887]
         /\ decoded[180] = [lon |-> -76707664, lat |-> 39983914]

\* C4 witness: the call on fixture A has returned its points
C4_Witness == encoded = FixtureA /\ pc = "done" /\ Len(decoded) = 180

\* C5, as stated: decoding fixture B returns, and returns 73 points, the
\* first (11.670365, 48.268722) and the last (11.668335, 48.262187).
C5_FixtureGermany73 ==
  encoded = FixtureB =>
    /\ pc # "panic"
    /\ pc = "done" =>
         /\ Len(decoded) = 73
         /\ decoded[1] = [lon |-> 11670365, lat |-> 48268722]
         /\ decoded[73] = [lon |-> 11668335, lat |-> 48262187]

\* C5, amended: decoding fixture B returns, and returns 71 points (as many
\* as the test of line 287 expects), the first (11.670365, 48.268722) and
\* the last (11.668335, 48.262187).
C5_FixtureGermany71 ==
  encoded = FixtureB =>
    /\ pc # "panic"
    /\ pc = "done" =>
         /\ Len(decoded) = 71
         /\ decoded[1] = [lon |-> 11670365, lat |-> 48268722]
         /\ decoded[71] = [lon |-> 11668335, lat |-> 48262187]

\* C5 witness: the call on fixture B has returned its points
C5_Witness == encoded = FixtureB /\ pc = "done" /\ Len(decoded) = 71

\* the input ends inside a field: its last byte does not end one
EndsInsideField(s) == s # << >> /\ ~EndsField(s[Len(s)])

\* C6: the call on an input that ends inside a field, fixture A without
\* its last byte among them, ends with the typed error TruncatedField (and
\* so returns no point sequence).
C6_TruncatedFieldError ==
  (EndsInsideField(encoded) /\ pc \in {"done", "panic"}) =>
    (pc = "panic" /\ panic = "TruncatedField")

(***************************************************************************)
(* C9: the bounds check                                                    *)
(***************************************************************************)
\* strictly inside the open intervals
InsideOpen(p) ==
  /\ -90000000 < p.lat /\ p.lat < 90000000
  /\ -180000000 < p.lon /\ p.lon < 180000000

\* inside the intervals closed at the lower end and open at the upper end
InsideHalfOpen(p) ==
  /\ -90000000 <= p.lat /\ p.lat < 90000000
  /\ -180000000 <= p.lon /\ p.lon < 180000000

\* the point the decoder is about to check and push, or has just refused
Candidate == [lon |-> ll[1], lat |-> ll[0]]

\* C9, as stated: a point passes the check of the decoder and of the two
\* conversions exactly when it is strictly inside the open intervals.
C9_CheckIsOpenInterval ==
  build = "debug" =>
    /\ \A k \in 1..Len(decoded) : InsideOpen(decoded[k])
    /\ (pc = "panic" /\ panic \in {"assert_lat", "assert_lon"})
         => ~InsideOpen(Candidate)
    /\ converted.outcome = "ok" => InsideOpen(converted.p)
    /\ converted.outcome \in {"assert_lat", "assert_lon"}
         => ~InsideOpen(converted.p)

\* C9, amended: in a debug build, the only one that has the check, a point
\* passes exactly when -90 <= latitude < 90 and -180 <= longitude < 180:
\* -90 and -180 pass, 90 and 180 do not.
C9_CheckIsHalfOpenInterval ==
  build = "debug" =>
    /\ \A k \in 1..Len(decoded) : InsideHalfOpen(decoded[k])
    /\ (pc = "panic" /\ panic \in {"assert_lat", "assert_lon"})
         => ~InsideHalfOpen(Candidate)
    /\ converted.outcome = "ok" => InsideHalfOpen(converted.p)
    /\ converted.outcome \in {"assert_lat", "assert_lon"}
         => ~InsideHalfOpen(converted.p)

\* C9 witness: a debug build has pushed the point at latitude -90 and
\* longitude -180, and a conversion has let it through
C9_Witness ==
  /\ build = "debug"
  /\ pc = "done"
  /\ decoded = << [lon |-> -180000000, lat |-> -90000000] >>
  /\ converted.outcome = "ok"
  /\ converted.p = decoded[1]

====
